---- MODULE Spec2Model ----
(***************************************************************************)
(* Model of the Snowflake identifier generator of src/main.go.             *)
(*                                                                         *)
(* Scaling.  The source packs a 64-bit word as 1 sign bit, 41 timestamp    *)
(* bits, 5 data-center bits, 5 machine bits and 12 sequence bits.  TLC's   *)
(* integers are 32 bits wide, so the four widths are scaled down and the   *)
(* word width is derived from them as in the source (1 + the four fields). *)
(* Every other constant (the maxima, the shifts) is computed from the      *)
(* widths by the source's own expressions, and all arithmetic on           *)
(* identifiers is two's complement in WordBits bits.                       *)
(*                                                                         *)
(* Clock.  `now` is the value of time.Now().UnixMilli() - epoch, the only  *)
(* way the program looks at the clock (lines 57 and 65).                   *)
(* Its readings are 0..MaxClock, inside the timestamp field, except under   *)
(* SpecWide, which adds a reading before the epoch and the two readings at *)
(* the field's upper edge.                                                 *)
(***************************************************************************)
EXTENDS Integers, FiniteSets, Sequences, TLC

\* ------------------------------------------------------------- widths
\* src/main.go:12-14 set 5, 5 and 12; scaled (see above).
machineBits == 1
dataCenterBits == 2
sequenceBits == 2
\* Width of the timestamp field: 64 - 1 - 5 - 5 - 12 = 41 in the source.
TsBits == 3
\* int64 in the source: sign bit + the four fields.
WordBits == 1 + TsBits + dataCenterBits + machineBits + sequenceBits

\* Largest clock reading (now_ms - epoch) the environment produces.
MaxClock == 3
\* Concurrent callers of Generate on one instance.
NumCallers == 2

\* ------------------------------------------------- int64 arithmetic
Pow2(n) == 2 ^ n

\* The bit pattern of a signed word, and back.
ToUnsigned(x) == x % Pow2(WordBits)
ToSigned(u) == IF u >= Pow2(WordBits - 1) THEN u - Pow2(WordBits) ELSE u
\* Truncation to the word, as Go's int64 arithmetic wraps.
Wrap(x) == ToSigned(x % Pow2(WordBits))

\* One bit of |, & and ^.
OrBit(a, b) == IF a = 1 \/ b = 1 THEN 1 ELSE 0
AndBit(a, b) == IF a = 1 /\ b = 1 THEN 1 ELSE 0
XorBit(a, b) == IF a # b THEN 1 ELSE 0
BitOf(op, a, b) ==
  CASE op = "|" -> OrBit(a, b)
    [] op = "&" -> AndBit(a, b)
    [] op = "^" -> XorBit(a, b)

\* Bit k of a bit pattern, and the pattern whose bit k is op of the operands' bits k.
Bit(u, k) == (u \div Pow2(k)) % 2
BitwiseU(op, a, b) ==
  LET acc[k \in 0..WordBits] ==
        IF k = 0 THEN 0
        ELSE acc[k - 1] + Pow2(k - 1) * BitOf(op, Bit(a, k - 1), Bit(b, k - 1))
  IN acc[WordBits]
\* The same on signed words.  (The operands are bound once, as values.)
Bitwise(op, x, y) ==
  CHOOSE r \in {ToSigned(BitwiseU(op, a, b)) : a \in {ToUnsigned(x)}, b \in {ToUnsigned(y)}} :
    TRUE

\* Go's |, &, ^, << and >> on int64.
BitOr(x, y) == Bitwise("|", x, y)
BitAnd(x, y) == Bitwise("&", x, y)
BitXor(x, y) == Bitwise("^", x, y)
Shl(x, k) == Wrap(x * Pow2(k))
Shr(x, k) == x \div Pow2(k)

\* ---------------------------------------------- constants, lines 17-27
maxMachineID == BitXor(-1, Shl(-1, machineBits))
maxDataCenterID == BitXor(-1, Shl(-1, dataCenterBits))
maxSequence == BitXor(-1, Shl(-1, sequenceBits))

machineShift == sequenceBits
dataCenterShift == sequenceBits + machineBits
timestampShift == sequenceBits + machineBits + dataCenterBits

\* ------------------------------------------------------------- state
VARIABLES
  sf,          \* sf[i]: the Snowflake struct of instance i (lines 30-36) and
               \* what NewSnowflake returned for it
  mu,          \* mu[i]: the caller holding instance i's mutex, 0 when unlocked
  now,         \* the clock: time.Now().UnixMilli() - epoch
  pc,          \* pc[p]: where caller p stands in Generate
  timestamp,   \* timestamp[p]: Generate's local variable (line 57)
  acq,         \* acq[p]: <<lastTimestamp, sequence, first clock read>> of p's call
  idLocal,     \* idLocal[p]: Generate's local id (line 77)
  lastId,      \* lastId[i]: the id the latest Generate call on i returned ({} before)
  lastErr,     \* lastErr[i]: the error that call returned
  watched,     \* watched[i]: one id returned by an earlier call on i ({} if none kept)
  call,        \* call[i]: the latest call's clock reads, the state it found and
               \* whether it was the first call on i
  run,         \* run[i]: the current run of calls that read one millisecond
  regressed    \* regressed[i]: some clock read was lower than an earlier one

vars == <<sf, mu, now, pc, timestamp, acq, idLocal, lastId, lastErr, watched, call,
          run, regressed>>

procVars == <<pc, timestamp, acq, idLocal>>
histVars == <<watched, call, run, regressed>>

Insts == {1, 2}
Callers == 1..NumCallers
ClockRange == 0..MaxClock

\* Arguments tried on NewSnowflake: every id of the range and one beyond each end.
MachineArgs == -1..(maxMachineID + 1)
DataCenterArgs == -1..(maxDataCenterID + 1)
\* The arguments of main's call, NewSnowflake(1, 1) (line 84).
MainMachineID == 1
MainDataCenterID == 1

NoInstance == [st |-> "none", err |-> "none", argMachine |-> 0, argDataCenter |-> 0,
               machineID |-> 0, dataCenterID |-> 0, sequence |-> 0, lastTimestamp |-> 0]
NoRun == [k |-> 0, first |-> 0]

Init ==
  /\ sf = [i \in Insts |-> NoInstance]
  /\ mu = [i \in Insts |-> 0]
  /\ now \in ClockRange
  /\ pc = [p \in Callers |-> "idle"]
  /\ timestamp = [p \in Callers |-> 0]
  /\ acq = [p \in Callers |-> <<>>]
  /\ idLocal = [p \in Callers |-> 0]
  /\ lastId = [i \in Insts |-> {}]
  /\ lastErr = [i \in Insts |-> "none"]
  /\ watched = [i \in Insts |-> {}]
  /\ call = [i \in Insts |-> {}]
  /\ run = [i \in Insts |-> NoRun]
  /\ regressed = [i \in Insts |-> FALSE]

\* ------------------------------------------------------ NewSnowflake
\* Lines 39 and 42: the two range checks.
\* (variant: the upper end compared with >= instead of >)
MachineIDValidOffByOne(machineID) == ~(machineID < 0 \/ machineID >= maxMachineID)
MachineIDValid(machineID) == ~(machineID < 0 \/ machineID > maxMachineID)
DataCenterIDValid(dataCenterID) == ~(dataCenterID < 0 \/ dataCenterID > maxDataCenterID)

\* Lines 38-49.  The struct literal leaves sequence and lastTimestamp zero.
NewSnowflakeResult(machineID, dataCenterID) ==
  IF ~MachineIDValid(machineID)
    THEN [NoInstance EXCEPT !.st = "nil", !.err = "machine",
                            !.argMachine = machineID, !.argDataCenter = dataCenterID]
  ELSE IF ~DataCenterIDValid(dataCenterID)
    THEN [NoInstance EXCEPT !.st = "nil", !.err = "dataCenter",
                            !.argMachine = machineID, !.argDataCenter = dataCenterID]
  ELSE [NoInstance EXCEPT !.st = "ok", !.err = "nil",
                          !.argMachine = machineID, !.argDataCenter = dataCenterID,
                          !.machineID = machineID, !.dataCenterID = dataCenterID]

NewSnowflake(i, machineID, dataCenterID) ==
  /\ sf[i].st = "none"
  /\ sf' = [sf EXCEPT ![i] = NewSnowflakeResult(machineID, dataCenterID)]
  /\ UNCHANGED <<mu, now, procVars, lastId, lastErr, histVars>>

\* ---------------------------------------------------------- Generate
\* Line 60.
\* (variant: a later reading counts as the same millisecond too)
SameMillisecondOrLater(ts, lastTimestamp) == ts >= lastTimestamp
SameMillisecond(ts, lastTimestamp) == ts = lastTimestamp
\* Line 61.
\* (variant: the increment is 2)
NextSequenceSkips(sequence) == BitAnd(sequence + 2, maxSequence)
NextSequence(sequence) == BitAnd(sequence + 1, maxSequence)
\* Line 64: the busy-wait's condition.
SpinAgain(ts, lastTimestamp) == ts = lastTimestamp
\* Line 77.
\* (variants: the sequence left out; the two id shifts exchanged; the
\* data-center id shifted by machineShift; the machine id not shifted; the
\* timestamp shifted one bit too far)
ComposeDropsSequence(ts, dataCenterID, machineID, sequence) ==
  BitOr(BitOr(Shl(ts, timestampShift), Shl(dataCenterID, dataCenterShift)),
        Shl(machineID, machineShift))
ComposeSwappedShifts(ts, dataCenterID, machineID, sequence) ==
  BitOr(BitOr(BitOr(Shl(ts, timestampShift), Shl(dataCenterID, machineShift)),
              Shl(machineID, dataCenterShift)),
        sequence)
ComposeOverlapping(ts, dataCenterID, machineID, sequence) ==
  BitOr(BitOr(BitOr(Shl(ts, timestampShift), Shl(dataCenterID, machineShift)),
              Shl(machineID, machineShift)),
        sequence)
ComposeMachineUnshifted(ts, dataCenterID, machineID, sequence) ==
  BitOr(BitOr(BitOr(Shl(ts, timestampShift), Shl(dataCenterID, dataCenterShift)),
              machineID),
        sequence)
ComposeShiftTooFar(ts, dataCenterID, machineID, sequence) ==
  BitOr(BitOr(BitOr(Shl(ts, timestampShift + 1), Shl(dataCenterID, dataCenterShift)),
              Shl(machineID, machineShift)),
        sequence)
Compose(ts, dataCenterID, machineID, sequence) ==
  BitOr(BitOr(BitOr(Shl(ts, timestampShift), Shl(dataCenterID, dataCenterShift)),
              Shl(machineID, machineShift)),
        sequence)

\* The sequence after lines 60-71, given the first clock read.
\* (variant: no else branch, the sequence is kept in a new millisecond)
SequenceAfterNoReset(ts, lastTimestamp, sequence) ==
  IF SameMillisecond(ts, lastTimestamp) THEN NextSequence(sequence) ELSE sequence
SequenceAfter(ts, lastTimestamp, sequence) ==
  IF SameMillisecond(ts, lastTimestamp) THEN NextSequence(sequence) ELSE 0
\* Whether the call enters the busy-wait (line 62).
EntersSpin(ts, lastTimestamp, sequence) ==
  SameMillisecond(ts, lastTimestamp) /\ SequenceAfter(ts, lastTimestamp, sequence) = 0

\* What a call on instance i that read t0 first and t1 last leaves in the
\* history variables, having returned id.
Record(i, t0, t1, id) ==
  LET s == sf[i]
      fresh == t0 > s.lastTimestamp
      spins == EntersSpin(t0, s.lastTimestamp, s.sequence)
  IN /\ \E keep \in BOOLEAN :
          watched' = [watched EXCEPT ![i] = IF keep THEN lastId[i] ELSE @]
     /\ call' = [call EXCEPT ![i] = {[t0 |-> t0, t1 |-> t1,
                                      preLast |-> s.lastTimestamp,
                                      preSeq |-> s.sequence,
                                      first |-> call[i] = {}]}]
     /\ run' = [run EXCEPT ![i] =
                  IF fresh THEN [k |-> 1, first |-> id]
                  ELSE IF @.k > 0 /\ t0 = s.lastTimestamp /\ ~spins
                    THEN [@ EXCEPT !.k = @ + 1]
                  ELSE NoRun]
     \* The latest read before this call is the one stored in lastTimestamp.
     /\ regressed' = [regressed EXCEPT ![i] =
                        \/ @
                        \/ call[i] # {} /\ t0 < s.lastTimestamp
                        \/ t1 < t0]

\* Generate as one step (lines 52-80): the caller takes the lock, runs to the
\* return and releases it.  The busy-wait of lines 64-66 ends at the first
\* clock read t1 for which the loop condition is false; the clock is left there.
\* The clock's readings are those of Clock.
GenerateCoreIn(i, Clock) ==
  /\ sf[i].st = "ok"
  /\ mu[i] = 0
  /\ LET s == sf[i]
         t0 == now
         seq == SequenceAfter(t0, s.lastTimestamp, s.sequence)
         spins == EntersSpin(t0, s.lastTimestamp, s.sequence)
     IN \E t1 \in Clock :
          /\ IF spins THEN ~SpinAgain(t1, s.lastTimestamp) ELSE t1 = t0
          /\ now' = t1
          /\ sf' = [sf EXCEPT ![i].sequence = seq, ![i].lastTimestamp = t1]
          /\ lastId' = [lastId EXCEPT ![i] =
                          {Compose(t1, s.dataCenterID, s.machineID, seq)}]
          /\ lastErr' = [lastErr EXCEPT ![i] = "nil"]
  /\ UNCHANGED <<mu, procVars>>

GenerateCore(i) == GenerateCoreIn(i, ClockRange)

Generate(i) ==
  /\ GenerateCore(i)
  /\ \E id \in lastId'[i] : Record(i, now, now', id)

\* The clock moves, forward or backward, between calls.
ClockSetIn(Clock) ==
  /\ \E t \in Clock : t # now /\ now' = t
  /\ UNCHANGED <<sf, mu, procVars, lastId, lastErr, histVars>>

ClockSet == ClockSetIn(ClockRange)

\* main's instance, called by one goroutine; the clock moves freely.
Next ==
  \/ NewSnowflake(1, MainMachineID, MainDataCenterID)
  \/ Generate(1)
  \/ ClockSet

Spec == Init /\ [][Next]_vars

\* ------------------------------------------- Generate, step by step
\* The callers of the concurrent specifications all call instance 1.
\* Line 53: Lock blocks until the mutex is free.
\* (variant: the call does not wait for the mutex)
MutexFreeIgnored(holder) == TRUE
MutexFree(holder) == holder = 0
\* Line 65: the busy-wait's clock read.
\* (variant: the loop does not read the clock again)
SpinReadStale(ts, clock) == ts
SpinRead(ts, clock) == clock

InCritical(p) == pc[p] \in {"read", "check", "spin", "store", "compose", "ret"}

\* A goroutine calls sf.Generate() (line 52).
CallGenerate(p) ==
  /\ pc[p] = "idle"
  /\ sf[1].st = "ok"
  /\ pc' = [pc EXCEPT ![p] = "lock"]
  /\ UNCHANGED <<sf, mu, now, timestamp, acq, idLocal, lastId, lastErr, histVars>>

\* Line 53.
Lock(p) ==
  /\ pc[p] = "lock"
  /\ MutexFree(mu[1])
  /\ mu' = [mu EXCEPT ![1] = p]
  /\ acq' = [acq EXCEPT ![p] = <<sf[1].lastTimestamp, sf[1].sequence>>]
  /\ pc' = [pc EXCEPT ![p] = "read"]
  /\ UNCHANGED <<sf, now, timestamp, idLocal, lastId, lastErr, histVars>>

\* Line 57.
ReadClock(p) ==
  /\ pc[p] = "read"
  /\ timestamp' = [timestamp EXCEPT ![p] = now]
  /\ acq' = [acq EXCEPT ![p] = Append(@, now)]
  /\ pc' = [pc EXCEPT ![p] = "check"]
  /\ UNCHANGED <<sf, mu, now, idLocal, lastId, lastErr, histVars>>

\* Lines 60-62 and 68-71.
CheckTimestamp(p) ==
  /\ pc[p] = "check"
  /\ LET seq == SequenceAfter(timestamp[p], sf[1].lastTimestamp, sf[1].sequence)
     IN /\ sf' = [sf EXCEPT ![1].sequence = seq]
        /\ pc' = [pc EXCEPT ![p] =
                    IF EntersSpin(timestamp[p], sf[1].lastTimestamp, sf[1].sequence)
                      THEN "spin" ELSE "store"]
  /\ UNCHANGED <<mu, now, timestamp, acq, idLocal, lastId, lastErr, histVars>>

\* Lines 64-66: one test of the loop condition and, if it holds, one clock read.
Spin(p) ==
  /\ pc[p] = "spin"
  /\ IF SpinAgain(timestamp[p], sf[1].lastTimestamp)
       THEN /\ timestamp' = [timestamp EXCEPT ![p] = SpinRead(@, now)]
            /\ pc' = pc
       ELSE /\ pc' = [pc EXCEPT ![p] = "store"]
            /\ timestamp' = timestamp
  /\ UNCHANGED <<sf, mu, now, acq, idLocal, lastId, lastErr, histVars>>

\* Line 74.
StoreTimestamp(p) ==
  /\ pc[p] = "store"
  /\ sf' = [sf EXCEPT ![1].lastTimestamp = timestamp[p]]
  /\ pc' = [pc EXCEPT ![p] = "compose"]
  /\ UNCHANGED <<mu, now, timestamp, acq, idLocal, lastId, lastErr, histVars>>

\* Line 77.
ComposeId(p) ==
  /\ pc[p] = "compose"
  /\ idLocal' = [idLocal EXCEPT ![p] =
                   Compose(timestamp[p], sf[1].dataCenterID, sf[1].machineID,
                           sf[1].sequence)]
  /\ pc' = [pc EXCEPT ![p] = "ret"]
  /\ UNCHANGED <<sf, mu, now, timestamp, acq, lastId, lastErr, histVars>>

\* Line 79 and the deferred Unlock of line 54.  call[1] keeps what the call
\* found when it took the lock and what it read.
Return(p) ==
  /\ pc[p] = "ret"
  /\ mu' = [mu EXCEPT ![1] = 0]
  /\ lastId' = [lastId EXCEPT ![1] = {idLocal[p]}]
  /\ lastErr' = [lastErr EXCEPT ![1] = "nil"]
  /\ call' = [call EXCEPT ![1] = {[t0 |-> acq[p][3], t1 |-> timestamp[p],
                                   preLast |-> acq[p][1], preSeq |-> acq[p][2],
                                   first |-> call[1] = {}]}]
  /\ pc' = [pc EXCEPT ![p] = "idle"]
  /\ timestamp' = [timestamp EXCEPT ![p] = 0]
  /\ acq' = [acq EXCEPT ![p] = <<>>]
  /\ idLocal' = [idLocal EXCEPT ![p] = 0]
  /\ UNCHANGED <<sf, now, watched, run, regressed>>

Step(p) ==
  \/ Lock(p)
  \/ ReadClock(p)
  \/ CheckTimestamp(p)
  \/ Spin(p)
  \/ StoreTimestamp(p)
  \/ ComposeId(p)
  \/ Return(p)

\* Several goroutines call Generate on one instance; the clock moves freely.
NextConc ==
  \/ NewSnowflake(1, MainMachineID, MainDataCenterID)
  \/ \E p \in Callers : CallGenerate(p)
  \/ \E p \in Callers : Step(p)
  \/ ClockSet

SpecConc == Init /\ [][NextConc]_vars

\* The clock only advances, one millisecond at a time, up to MaxClock.
Tick ==
  /\ now < MaxClock
  /\ now' = now + 1
  /\ UNCHANGED <<sf, mu, procVars, lastId, lastErr, histVars>>

\* Calls begin while the clock has not reached MaxClock, where the model's
\* clock stops: at most NumCallers calls are then under way.
CallBeforeHorizon(p) ==
  /\ now < MaxClock
  /\ CallGenerate(p)

NextLive ==
  \/ NewSnowflake(1, MainMachineID, MainDataCenterID)
  \/ \E p \in Callers : CallBeforeHorizon(p)
  \/ \E p \in Callers : Step(p)
  \/ Tick

\* The clock advances; a goroutine that can run does; sync.Mutex hands the lock
\* to a waiter that keeps finding it taken (its starvation mode).
Fairness ==
  /\ WF_vars(Tick)
  /\ \A p \in Callers :
       /\ SF_vars(Lock(p))
       /\ WF_vars(ReadClock(p) \/ CheckTimestamp(p) \/ Spin(p) \/ StoreTimestamp(p)
                    \/ ComposeId(p) \/ Return(p))

LiveSpec == Init /\ [][NextLive]_vars /\ Fairness

\* Generate as one step, the history of the calls not kept.
GenerateOn(i) ==
  /\ GenerateCore(i)
  /\ UNCHANGED histVars

\* One instance constructed with any arguments.
NextFields ==
  \/ \E m \in MachineArgs, d \in DataCenterArgs : NewSnowflake(1, m, d)
  \/ GenerateOn(1)
  \/ ClockSet

SpecFields == Init /\ [][NextFields]_vars

\* Two instances, main's and one constructed with any arguments, each called
\* under its own lock, so each call is one step.
NextPair ==
  \/ NewSnowflake(1, MainMachineID, MainDataCenterID)
  \/ \E m \in MachineArgs, d \in DataCenterArgs : NewSnowflake(2, m, d)
  \/ \E i \in Insts : GenerateOn(i)
  \/ ClockSet

SpecPair == Init /\ [][NextPair]_vars

\* Readings outside the timestamp field as well: one millisecond before the
\* epoch, and the last reading that fits the field's TsBits bits and the first
\* that does not.
WideClockRange == {-1} \cup ClockRange \cup {Pow2(TsBits) - 1, Pow2(TsBits)}

GenerateWide(i) ==
  /\ GenerateCoreIn(i, WideClockRange)
  /\ UNCHANGED histVars

ClockSetWide == ClockSetIn(WideClockRange)

\* main's instance under a clock that may also read outside the field.
NextWide ==
  \/ NewSnowflake(1, MainMachineID, MainDataCenterID)
  \/ GenerateWide(1)
  \/ ClockSetWide

SpecWide == Init /\ [][NextWide]_vars

\* ------------------------------------------------------------ claims

\* The fields of an identifier, by the shifts and masks that invert line 77;
\* the claims are stated with them.
TimestampField(id) == Shr(id, timestampShift)
DataCenterField(id) == BitAnd(Shr(id, dataCenterShift), Pow2(dataCenterBits) - 1)
MachineField(id) == BitAnd(Shr(id, machineShift), Pow2(machineBits) - 1)
SequenceField(id) == BitAnd(id, Pow2(sequenceBits) - 1)

\* C1: a Generate call whose clock read is below lastTimestamp returns a
\* ClockError and leaves lastTimestamp and sequence as it found them.
C1_RegressionRejected ==
  \A c \in call[1] :
    c.t0 < c.preLast =>
      /\ lastErr[1] = "ClockError"
      /\ sf[1].lastTimestamp = c.preLast
      /\ sf[1].sequence = c.preSeq

\* C2: no two Generate calls on one instance return the same identifier,
\* whatever the clock does.
C2_Unique ==
  \A w \in watched[1], x \in lastId[1] : w # x

\* C3: while no clock read is lower than an earlier one, every identifier is
\* greater than every identifier returned before it.
C3_Monotonic ==
  ~regressed[1] => \A w \in watched[1], x \in lastId[1] : w < x

\* The case of C3: an earlier id is kept, the clock never regressed, and the
\* latest call went through the busy-wait to a later millisecond.
C3_Witness ==
  /\ ~regressed[1]
  /\ watched[1] # {}
  /\ \E c \in call[1] : c.t1 > c.t0

\* C4: no (timestamp, sequence) pair is issued twice, and a call that finds the
\* sequence space of millisecond T used up returns an id with a timestamp
\* field greater than T and sequence 0.
C4_SequenceBound ==
  /\ \A w \in watched[1], x \in lastId[1] :
       <<TimestampField(w), SequenceField(w)>> # <<TimestampField(x), SequenceField(x)>>
  /\ \A c \in call[1], x \in lastId[1] :
       (c.t0 = c.preLast /\ c.preSeq = Pow2(sequenceBits) - 1) =>
         /\ TimestampField(x) > c.preLast
         /\ SequenceField(x) = 0

\* C5: the data-center and machine fields of every returned identifier are the
\* dataCenterID and machineID given to NewSnowflake.
C5_FieldRoundTrip ==
  \A x \in lastId[1] :
    /\ BitAnd(Shr(x, sequenceBits + machineBits), Pow2(dataCenterBits) - 1)
         = sf[1].argDataCenter
    /\ BitAnd(Shr(x, sequenceBits), Pow2(machineBits) - 1) = sf[1].argMachine

\* The case of C5: the largest ids of both fields, a nonzero timestamp and the
\* largest sequence number, so every neighbouring field is all ones.
C5_Witness ==
  /\ lastId[1] # {}
  /\ sf[1].argDataCenter = Pow2(dataCenterBits) - 1
  /\ sf[1].argMachine = Pow2(machineBits) - 1
  /\ sf[1].sequence = Pow2(sequenceBits) - 1
  /\ sf[1].lastTimestamp > 0

\* C6: NewSnowflake returns a generator and no error exactly when
\* 0 <= dataCenterID <= 2^D - 1 and 0 <= machineID <= 2^M - 1, and otherwise an
\* error and no generator.
C6_ConstructionBounds ==
  LET s == sf[1]
      inRange == /\ 0 <= s.argDataCenter /\ s.argDataCenter <= Pow2(dataCenterBits) - 1
                 /\ 0 <= s.argMachine /\ s.argMachine <= Pow2(machineBits) - 1
  IN s.st # "none" =>
       /\ inRange => s.st = "ok" /\ s.err = "nil"
       /\ ~inRange => s.st = "nil" /\ s.err # "nil"

\* The cases of C6: the top corner of the range was accepted.
C6_Witness ==
  /\ sf[1].st = "ok"
  /\ sf[1].argDataCenter = Pow2(dataCenterBits) - 1
  /\ sf[1].argMachine = Pow2(machineBits) - 1

\* C7: k consecutive calls (k <= 2^S) that read one millisecond T, greater than
\* the lastTimestamp before the first of them, return ids with the same
\* timestamp, data-center and machine fields and sequence fields 0 .. k-1.
C7_SameMillisecond ==
  \A x \in lastId[1] :
    run[1].k >= 1 =>
      /\ run[1].k <= Pow2(sequenceBits)
      /\ SequenceField(x) = run[1].k - 1
      /\ TimestampField(x) = TimestampField(run[1].first)
      /\ DataCenterField(x) = DataCenterField(run[1].first)
      /\ MachineField(x) = MachineField(run[1].first)
      /\ SequenceField(run[1].first) = 0

\* The case of C7: a run as long as the sequence space.
C7_Witness ==
  /\ run[1].k = Pow2(sequenceBits)
  /\ lastId[1] # {}

\* C8: at most one caller is between Lock and Unlock, the holder of the mutex
\* is that caller, and each call leaves the state and returns the id that the
\* one-step Generate gives from the state it found when it took the lock and
\* the clock values it read: the calls are serial in the order of their Locks.
C8_MutualExclusion ==
  /\ \A p, q \in Callers : (InCritical(p) /\ InCritical(q)) => p = q
  /\ \A p \in Callers : InCritical(p) <=> mu[1] = p
  /\ \A p \in Callers :
       pc[p] = "ret" =>
         LET seq == SequenceAfter(acq[p][3], acq[p][1], acq[p][2])
             spins == EntersSpin(acq[p][3], acq[p][1], acq[p][2])
         IN /\ sf[1].sequence = seq
            /\ sf[1].lastTimestamp = timestamp[p]
            /\ IF spins THEN timestamp[p] # acq[p][1] ELSE timestamp[p] = acq[p][3]
            /\ idLocal[p] = BitOr(BitOr(BitOr(Shl(timestamp[p], timestampShift),
                                              Shl(sf[1].dataCenterID, dataCenterShift)),
                                        Shl(sf[1].machineID, machineShift)),
                                  seq)
  /\ mu[1] = 0 =>
       /\ \A c \in call[1] :
            /\ sf[1].sequence = SequenceAfter(c.t0, c.preLast, c.preSeq)
            /\ sf[1].lastTimestamp = c.t1
       /\ call[1] = {} => (sf[1].sequence = 0 /\ sf[1].lastTimestamp = 0)
  /\ \A p \in Callers :
       pc[p] = "read" => acq[p] = <<sf[1].lastTimestamp, sf[1].sequence>>

\* The case of C8: one caller spins in the busy-wait while the other waits for
\* the lock, after an earlier call has returned.
C8_Witness ==
  /\ \E p, q \in Callers : pc[p] = "spin" /\ pc[q] = "lock"
  /\ call[1] # {}

\* C9: with a clock that keeps advancing, every call of Generate returns (and
\* so releases the lock), the callers waiting for the lock included, and no
\* call returns an error.
C9_Terminates ==
  /\ \A p \in Callers : [](pc[p] # "idle" => <>(pc[p] = "idle"))
  /\ [](lastErr[1] \in {"none", "nil"})

\* The case of C9: a caller is in the busy-wait with another blocked on the lock.
C9_Witness ==
  \E p, q \in Callers :
    /\ pc[p] = "spin"
    /\ pc[q] = "lock"
    /\ timestamp[p] = sf[1].lastTimestamp

\* C10: two instances constructed with different (dataCenterID, machineID)
\* pairs never return the same identifier.
C10_CrossInstanceUnique ==
  <<sf[1].argDataCenter, sf[1].argMachine>> # <<sf[2].argDataCenter, sf[2].argMachine>>
    => \A x \in lastId[1], y \in lastId[2] : x # y

\* The case of C10: both instances have returned an id for the same
\* millisecond and sequence number, and their pairs differ in one id only.
C10_Witness ==
  /\ lastId[1] # {} /\ lastId[2] # {}
  /\ sf[1].lastTimestamp = sf[2].lastTimestamp
  /\ sf[1].sequence = sf[2].sequence
  /\ sf[1].argDataCenter = sf[2].argDataCenter
  /\ sf[1].argMachine # sf[2].argMachine


\* C11: lastTimestamp never decreases: after every Generate call on the
\* instance, whatever the clock did, lastTimestamp is at least what the call
\* found, and the timestamp field of the identifier returned is at least the
\* timestamp field of every identifier returned before it.
C11_LastTimestampNonDecreasing ==
  /\ \A c \in call[1] : sf[1].lastTimestamp >= c.preLast
  /\ \A w \in watched[1] : \A x \in lastId[1] :
       TimestampField(w) <= TimestampField(x)

\* C12: a call whose same-millisecond increment wraps the sequence to 0 returns
\* only once the clock has passed lastTimestamp: the identifier returned has a
\* timestamp field strictly greater than the lastTimestamp the call found and
\* sequence field 0, and the instance is left with that greater lastTimestamp.
C12_BusyWaitPassesLastTimestamp ==
  \A c \in call[1] : \A x \in lastId[1] :
    EntersSpin(c.t0, c.preLast, c.preSeq) =>
      /\ sf[1].lastTimestamp > c.preLast
      /\ TimestampField(x) > c.preLast
      /\ SequenceField(x) = 0


\* C13: the sequence stays within 0 .. 2^S - 1 in every reachable state, and
\* every Generate call whose clock read is greater than lastTimestamp leaves
\* sequence at 0 and returns an identifier whose sequence field is 0.
C13_SequenceRangeAndReset ==
  /\ sf[1].sequence \in 0..(Pow2(sequenceBits) - 1)
  /\ \A c \in call[1] : \A x \in lastId[1] :
       c.t0 > c.preLast => sf[1].sequence = 0 /\ SequenceField(x) = 0

\* A call found the sequence at its maximum and read a later millisecond.
C13_Witness ==
  \E c \in call[1] :
    /\ c.t0 > c.preLast
    /\ c.preSeq = Pow2(sequenceBits) - 1
    /\ lastId[1] # {}
    /\ sf[1].sequence = 0

\* C14: the identifier a Generate call returns is exactly
\* (lastTimestamp << (S+M+D)) | (dataCenterID << (S+M)) | (machineID << S) |
\* sequence on the instance's state at the end of the call; the four fields
\* do not overlap (the bitwise or is the sum), so id >> (S+M+D) is
\* lastTimestamp and id & (2^S - 1) is sequence.
C14_Composition ==
  \A x \in lastId[1] :
    LET s == sf[1]
        S == sequenceBits
        M == machineBits
        D == dataCenterBits
    IN /\ x = BitOr(BitOr(BitOr(Shl(s.lastTimestamp, S + M + D),
                                Shl(s.dataCenterID, S + M)),
                          Shl(s.machineID, S)),
                    s.sequence)
       /\ x = s.lastTimestamp * Pow2(S + M + D) + s.dataCenterID * Pow2(S + M)
              + s.machineID * Pow2(S) + s.sequence
       /\ Shr(x, S + M + D) = s.lastTimestamp
       /\ BitAnd(x, Pow2(S) - 1) = s.sequence

\* An identifier was returned with all four fields non-zero, the timestamp and
\* the sequence at the largest values the model reaches.
C14_Witness ==
  /\ lastId[1] # {}
  /\ sf[1].lastTimestamp = MaxClock
  /\ sf[1].sequence = Pow2(sequenceBits) - 1
  /\ sf[1].machineID > 0
  /\ sf[1].dataCenterID > 0

\* C15 (as stated): every identifier Generate returns has its top bit 0, i.e.
\* is non-negative as a signed word, for every clock reading, those before the
\* epoch and those that need more than the timestamp field's bits included.
C15_SignBitZero ==
  \A x \in lastId[1] :
    Bit(ToUnsigned(x), WordBits - 1) = 0 /\ x >= 0

\* C15 (amended): every identifier Generate returns for a timestamp at or
\* after the epoch that fits the timestamp field, 0 <= timestamp < 2^TsBits,
\* has its top bit 0, i.e. is non-negative as a signed word.
C15_SignBitZeroInField ==
  \A x \in lastId[1] :
    sf[1].lastTimestamp \in 0..(Pow2(TsBits) - 1) =>
      Bit(ToUnsigned(x), WordBits - 1) = 0 /\ x >= 0

\* An identifier was returned for the largest timestamp that fits the field.
C15_Witness ==
  /\ lastId[1] # {}
  /\ sf[1].lastTimestamp = Pow2(TsBits) - 1
  /\ \A x \in lastId[1] : TimestampField(x) = Pow2(TsBits) - 1

\* C16 (as stated): a constructed generator has lastTimestamp 0 and sequence
\* 0 until its first call, and the first Generate call on it, for every clock
\* reading at or after the epoch (timestamp 0 included), takes the
\* new-millisecond case and returns an identifier with sequence field 0.
C16_FirstCall ==
  /\ (sf[1].st = "ok" /\ call[1] = {}) =>
       sf[1].lastTimestamp = 0 /\ sf[1].sequence = 0
  /\ \A c \in call[1] : \A x \in lastId[1] :
       (c.first /\ c.t0 >= 0) =>
         /\ c.preLast = 0 /\ c.preSeq = 0
         /\ c.t0 # c.preLast
         /\ sf[1].sequence = 0
         /\ SequenceField(x) = 0

\* C16 (amended): a constructed generator has lastTimestamp 0 and sequence 0
\* until its first call; the first Generate call on it takes the
\* new-millisecond case and returns an identifier with sequence field 0 for
\* every clock reading after the epoch (timestamp > 0); at timestamp 0 it
\* takes the same-millisecond case and returns sequence field 1.
C16_FirstCallAfterEpoch ==
  /\ (sf[1].st = "ok" /\ call[1] = {}) =>
       sf[1].lastTimestamp = 0 /\ sf[1].sequence = 0
  /\ \A c \in call[1] : \A x \in lastId[1] :
       c.first =>
         /\ c.preLast = 0 /\ c.preSeq = 0
         /\ c.t0 > 0 =>
              /\ c.t0 # c.preLast
              /\ sf[1].sequence = 0
              /\ SequenceField(x) = 0
         /\ c.t0 = 0 =>
              /\ c.t0 = c.preLast
              /\ sf[1].sequence = 1
              /\ SequenceField(x) = 1

\* The first call on the generator read a millisecond after the epoch.
C16_Witness ==
  \E c \in call[1] :
    /\ c.first
    /\ c.t0 = MaxClock
    /\ lastId[1] # {}
    /\ sf[1].sequence = 0
====
